---------------------------- MODULE Spec2Model ----------------------------
(***************************************************************************)
(* Model of the asset message validation (app/v1/asset/msgs.go) and of the *)
(* coin-type converter (package types: CoinType.Convert and friends).     *)
(*                                                                         *)
(* Go strings are sequences of one-character strings, so that trimming,    *)
(* lower-casing, length and pattern tests are computed, not assumed.       *)
(* Unbounded integers (uint64 supplies, sdk.Int amounts) are sequences of  *)
(* decimal digits, most significant first, without leading zeros.          *)
(***************************************************************************)
EXTENDS Integers, Sequences, FiniteSets, TLC

VARIABLES
    pc,           \* "ready": request constructed; "done": call returned; "back": converted back
    kind,         \* which request the caller constructed
    issueMsg,     \* the caller's MsgIssueToken value
    issueRecv,    \* ValidateBasic's receiver (its own copy of the message) at return
    issueErr,     \* the sdk.Error ValidateBasic returned ("nil": accepted)
    createMsg,    \* the caller's MsgCreateGateway value
    editMsg,      \* the caller's MsgEditGateway value
    transferMsg,  \* the caller's MsgTransferGatewayOwner value
    gatewayErr,   \* the sdk.Error the gateway message's ValidateBasic returned
    srcCoinStr,   \* Convert's first argument
    destDenom,    \* Convert's second argument
    convOut,      \* what Convert returned: [str, err]
    backOut,      \* what converting convOut.str back to the source unit returned
    minOut        \* what ConvertToMinDenomCoin returned: [coin, err]

vars == <<pc, kind, issueMsg, issueRecv, issueErr, createMsg, editMsg, transferMsg,
          gatewayErr, srcCoinStr, destDenom, convOut, backOut, minOut>>

(***************************************************************************)
(* Bounds of the model.                                                    *)
(***************************************************************************)
\* most whitespace characters put on each side of a sampled string
MaxPad == 1
\* longest sampled symbol (one more than MaximumAssetSymbolSize)
MaxSymbolLen == 9
\* longest sampled moniker (one more than MaximumGatewayMonikerSize)
MaxMonikerLen == 9
\* most zeros appended to a sampled amount
MaxAmountZeros == 1

(***************************************************************************)
(* Characters and the Go string functions the code calls.                  *)
(***************************************************************************)
UpperChars == <<"A","B","C","D","E","F","G","H","I","J","K","L","M",
                "N","O","P","Q","R","S","T","U","V","W","X","Y","Z">>
LowerChars == <<"a","b","c","d","e","f","g","h","i","j","k","l","m",
                "n","o","p","q","r","s","t","u","v","w","x","y","z">>
DigitChars == <<"0","1","2","3","4","5","6","7","8","9">>

Range(s) == {s[i] : i \in 1..Len(s)}

IsUpperChar(c) == c \in Range(UpperChars)
IsLowerChar(c) == c \in Range(LowerChars)
IsLetterChar(c) == IsUpperChar(c) \/ IsLowerChar(c)
IsDigitChar(c) == c \in Range(DigitChars)
\* unicode.IsSpace on the ASCII range
IsSpaceChar(c) == c \in {" ", "\t", "\n", "\r"}

ToLowerChar(c) ==
    IF IsUpperChar(c)
    THEN LowerChars[CHOOSE i \in 1..Len(UpperChars) : UpperChars[i] = c]
    ELSE c

\* strings.ToLower
ToLower(s) == [i \in 1..Len(s) |-> ToLowerChar(s[i])]

SetMin(S) == CHOOSE m \in S : \A n \in S : m <= n
SetMax(S) == CHOOSE m \in S : \A n \in S : n <= m

\* strings.TrimSpace: leading and trailing white space removed
TrimSpace(s) ==
    LET keep == {i \in 1..Len(s) : ~IsSpaceChar(s[i])}
    IN  IF keep = {} THEN <<>> ELSE SubSeq(s, SetMin(keep), SetMax(keep))

\* strings.Contains
Contains(s, sub) ==
    \E i \in 0..(Len(s) - Len(sub)) : SubSeq(s, i + 1, i + Len(sub)) = sub

\* regexp ^[a-zA-Z]+$
IsAlpha(s) == Len(s) > 0 /\ \A i \in 1..Len(s) : IsLetterChar(s[i])
\* regexp ^[a-zA-Z0-9]+$
IsAlphaNumeric(s) ==
    Len(s) > 0 /\ \A i \in 1..Len(s) : IsLetterChar(s[i]) \/ IsDigitChar(s[i])
\* regexp ^[a-zA-Z].*
IsBeginWithAlpha(s) == Len(s) > 0 /\ IsLetterChar(s[1])

\* a string of n copies of the character c
Rep(c, n) == [i \in 1..n |-> c]
\* the string s with n blanks on each side
Pad(s, n) == Rep(" ", n) \o s \o Rep(" ", n)

(***************************************************************************)
(* Limits of msgs.go.                                                      *)
(***************************************************************************)
MaximumAssetMaxSupply == <<1,0,0,0,0,0,0,0,0,0,0,0,0>>
MaximumAssetInitSupply == <<1,0,0,0,0,0,0,0,0,0,0,0>>
MaximumAssetDecimal == 18
MinimumAssetSymbolSize == 3
MaximumAssetSymbolSize == 8
MinimumAssetSymbolMinAliasSize == 3
MaximumAssetSymbolMinAliasSize == 10
MaximumAssetNameSize == 32
MinimumGatewayMonikerSize == 3
MaximumGatewayMonikerSize == 8
MaximumGatewayDetailsSize == 280
MaximumGatewayWebsiteSize == 128

\* sdk.NativeTokenName and sdk.NativeTokenMinDenom of irishub/types
NativeTokenName == <<"i","r","i","s">>
NativeTokenMinDenom == <<"i","r","i","s","-","a","t","t","o">>

(***************************************************************************)
(* Unsigned integers as digit sequences.                                   *)
(***************************************************************************)
IsZero(n) == n = <<0>>

\* a < b for two digit sequences without leading zeros
NatLess(a, b) ==
    \/ Len(a) < Len(b)
    \/ /\ Len(a) = Len(b)
       /\ \E i \in 1..Len(a) :
            /\ a[i] < b[i]
            /\ \A j \in 1..(i - 1) : a[j] = b[j]

NatGreater(a, b) == NatLess(b, a)

(***************************************************************************)
(* Types of the asset package and of irishub/types that msgs.go uses.      *)
(***************************************************************************)
\* AssetSource values; "UNDEFINED" stands for any byte that is none of the three
AssetSources == {"NATIVE", "EXTERNAL", "GATEWAY", "UNDEFINED"}
\* the keys of AssetFamilyToStringMap
AssetFamilyToStringMap == {"FUNGIBLE"}
\* "UNDEFINED" stands for any byte that is no key of the map
AssetFamilies == AssetFamilyToStringMap \cup {"UNDEFINED"}

\* sdk.AccAddress.Empty: nil or zero-length
AccAddress_Empty(a) == Len(a) = 0
\* sdk.AccAddress.Equals: both empty, or the same bytes
AccAddress_Equals(a, b) == (AccAddress_Empty(a) /\ AccAddress_Empty(b)) \/ a = b
\* sdk.Coin.IsNotNegative
Coin_IsNotNegative(c) == c.Amount >= 0

(***************************************************************************)
(* MsgIssueToken.ValidateBasic, msgs.go 81-161.                            *)
(***************************************************************************)
\* lines 83-87: the string fields the receiver normalises
NormalizeIssueToken(msg) ==
    [msg EXCEPT !.Gateway = ToLower(TrimSpace(@)),
                !.Symbol = ToLower(TrimSpace(@)),
                !.SymbolAtSource = ToLower(TrimSpace(@)),
                !.SymbolMinAlias = ToLower(TrimSpace(@)),
                !.Name = TrimSpace(@)]

\* the default-fill with the two branches swapped
DefaultMaxSupplySwapped(msg) ==
    IF IsZero(msg.MaxSupply)
    THEN [msg EXCEPT !.MaxSupply =
            IF msg.Mintable THEN msg.InitialSupply ELSE MaximumAssetMaxSupply]
    ELSE msg

\* lines 89-95: MaxSupply 0 is replaced by its default
DefaultMaxSupply(msg) ==
    IF IsZero(msg.MaxSupply)
    THEN [msg EXCEPT !.MaxSupply =
            IF msg.Mintable THEN MaximumAssetMaxSupply ELSE msg.InitialSupply]
    ELSE msg

\* lines 97-118: the error of the switch on msg.Source
SourceError(msg) ==
    CASE msg.Source = "NATIVE" ->
            IF AccAddress_Empty(msg.Owner) THEN "ErrNilAssetOwner" ELSE "nil"
      [] msg.Source = "EXTERNAL" -> "ErrInvalidAssetSource"
      [] msg.Source = "GATEWAY" ->
            IF \/ Len(msg.Gateway) < MinimumGatewayMonikerSize
               \/ Len(msg.Gateway) > MaximumGatewayMonikerSize
            THEN "ErrInvalidMoniker"
            ELSE "nil"
      [] OTHER -> "ErrInvalidAssetSource"

\* line 104: SymbolAtSource is cleared for a native asset that has an owner
ClearSymbolAtSource(msg) ==
    IF msg.Source = "NATIVE" /\ ~AccAddress_Empty(msg.Owner)
    THEN [msg EXCEPT !.SymbolAtSource = <<>>]
    ELSE msg

\* line 120
FamilyInvalid(msg) == msg.Family \notin AssetFamilyToStringMap

\* lines 124-125
NameInvalid(msg) == Len(msg.Name) = 0 \/ Len(msg.Name) > MaximumAssetNameSize

\* the symbol test without its upper length limit
SymbolInvalidNoMax(msg) ==
    \/ Len(msg.Symbol) < MinimumAssetSymbolSize
    \/ ~IsBeginWithAlpha(msg.Symbol)
    \/ ~IsAlphaNumeric(msg.Symbol)

\* lines 129-130
SymbolInvalid(msg) ==
    \/ Len(msg.Symbol) < MinimumAssetSymbolSize
    \/ Len(msg.Symbol) > MaximumAssetSymbolSize
    \/ ~IsBeginWithAlpha(msg.Symbol)
    \/ ~IsAlphaNumeric(msg.Symbol)

\* line 134
SymbolHasNativeName(msg) == Contains(ToLower(msg.Symbol), NativeTokenName)

\* lines 138-139
SymbolAtSourceInvalid(msg) ==
    /\ Len(msg.SymbolAtSource) > 0
    /\ \/ Len(msg.SymbolAtSource) < MinimumAssetSymbolSize
       \/ Len(msg.SymbolAtSource) > MaximumAssetSymbolSize
       \/ ~IsAlphaNumeric(msg.SymbolAtSource)

\* the alias test with the begin-with-letter test reading the alias
SymbolMinAliasInvalidAliasAlpha(msg) ==
    /\ Len(msg.SymbolMinAlias) > 0
    /\ \/ Len(msg.SymbolMinAlias) < MinimumAssetSymbolMinAliasSize
       \/ Len(msg.SymbolMinAlias) > MaximumAssetSymbolMinAliasSize
       \/ ~IsAlphaNumeric(msg.SymbolMinAlias)
       \/ ~IsBeginWithAlpha(msg.SymbolMinAlias)

\* lines 143-144: && binds tighter than ||, and the last test reads msg.Symbol
SymbolMinAliasInvalid(msg) ==
    \/ /\ Len(msg.SymbolMinAlias) > 0
       /\ \/ Len(msg.SymbolMinAlias) < MinimumAssetSymbolMinAliasSize
          \/ Len(msg.SymbolMinAlias) > MaximumAssetSymbolMinAliasSize
          \/ ~IsAlphaNumeric(msg.SymbolMinAlias)
    \/ ~IsBeginWithAlpha(msg.Symbol)

\* line 148
InitSupplyInvalid(msg) == NatGreater(msg.InitialSupply, MaximumAssetInitSupply)

\* line 152
MaxSupplyInvalid(msg) ==
    \/ NatLess(msg.MaxSupply, msg.InitialSupply)
    \/ NatGreater(msg.MaxSupply, MaximumAssetMaxSupply)

\* line 156
DecimalInvalid(msg) == msg.Decimal > MaximumAssetDecimal

\* lines 120-160: the checks after the switch, first failure first
IssueTokenChecks(msg) ==
    CASE FamilyInvalid(msg) -> "ErrInvalidAssetFamily"
      [] NameInvalid(msg) -> "ErrInvalidAssetName"
      [] SymbolInvalid(msg) -> "ErrInvalidAssetSymbol"
      [] SymbolHasNativeName(msg) -> "ErrInvalidAssetSymbol"
      [] SymbolAtSourceInvalid(msg) -> "ErrInvalidAssetSymbolAtSource"
      [] SymbolMinAliasInvalid(msg) -> "ErrInvalidAssetSymbolMinAlias"
      [] InitSupplyInvalid(msg) -> "ErrInvalidAssetInitSupply"
      [] MaxSupplyInvalid(msg) -> "ErrInvalidAssetMaxSupply"
      [] DecimalInvalid(msg) -> "ErrInvalidAssetDecimal"
      [] OTHER -> "nil"

\* The whole method: the error it returns and its receiver when it returns.
MsgIssueToken_ValidateBasic(m) ==
    LET filled == DefaultMaxSupply(NormalizeIssueToken(m))
        srcErr == SourceError(filled)
        msg    == ClearSymbolAtSource(filled)
    IN  IF srcErr # "nil"
        THEN [err |-> srcErr, recv |-> msg]
        ELSE [err |-> IssueTokenChecks(msg), recv |-> msg]

(***************************************************************************)
(* The gateway messages, msgs.go 206-434.                                  *)
(***************************************************************************)
\* ValidateMoniker, lines 417-434
ValidateMoniker(moniker) ==
    CASE \/ Len(moniker) < MinimumGatewayMonikerSize
         \/ Len(moniker) > MaximumGatewayMonikerSize -> "ErrInvalidMoniker"
      [] ~IsAlpha(moniker) -> "ErrInvalidMoniker"
      [] Contains(ToLower(moniker), NativeTokenName) -> "ErrInvalidMoniker"
      [] OTHER -> "nil"

\* MsgCreateGateway.ValidateBasic, lines 206-237
MsgCreateGateway_ValidateBasic(msg) ==
    CASE Len(msg.Owner) = 0 -> "ErrInvalidAddress"
      [] ValidateMoniker(msg.Moniker) # "nil" -> ValidateMoniker(msg.Moniker)
      [] Len(msg.Details) > MaximumGatewayDetailsSize -> "ErrInvalidDetails"
      [] Len(msg.Website) > MaximumGatewayWebsiteSize -> "ErrInvalidDetails"
      [] msg.Fee.Denom # NativeTokenMinDenom -> "ErrIncorrectFeeDenom"
      [] ~Coin_IsNotNegative(msg.Fee) -> "ErrNegativeFee"
      [] OTHER -> "nil"

\* the no-update test with the nil comparisons inverted
NoUpdatesInverted(msg) == msg.Identity.set /\ msg.Details.set /\ msg.Website.set

\* line 313: Identity, Details and Website are all nil
NoUpdates(msg) == ~msg.Identity.set /\ ~msg.Details.set /\ ~msg.Website.set

\* MsgEditGateway.ValidateBasic, lines 291-318; a *string is [set, val]
MsgEditGateway_ValidateBasic(msg) ==
    CASE Len(msg.Owner) = 0 -> "ErrInvalidAddress"
      [] ValidateMoniker(msg.Moniker) # "nil" -> ValidateMoniker(msg.Moniker)
      [] msg.Details.set /\ Len(msg.Details.val) > MaximumGatewayDetailsSize ->
            "ErrInvalidDetails"
      [] msg.Website.set /\ Len(msg.Website.val) > MaximumGatewayWebsiteSize ->
            "ErrInvalidWebsite"
      [] NoUpdates(msg) -> "ErrNoUpdatesProvided"
      [] OTHER -> "nil"

\* line 380
ToEqualsOwner(msg) == AccAddress_Equals(msg.To, msg.Owner)

\* the method with the moniker checked before the self-transfer test
MsgTransferGatewayOwner_ValidateBasicMonikerFirst(msg) ==
    CASE Len(msg.Owner) = 0 -> "ErrInvalidAddress"
      [] Len(msg.To) = 0 -> "ErrInvalidAddress"
      [] ValidateMoniker(msg.Moniker) # "nil" -> ValidateMoniker(msg.Moniker)
      [] ToEqualsOwner(msg) -> "ErrInvalidToAddress"
      [] OTHER -> "nil"

\* MsgTransferGatewayOwner.ValidateBasic, lines 368-390
MsgTransferGatewayOwner_ValidateBasic(msg) ==
    CASE Len(msg.Owner) = 0 -> "ErrInvalidAddress"
      [] Len(msg.To) = 0 -> "ErrInvalidAddress"
      [] ToEqualsOwner(msg) -> "ErrInvalidToAddress"
      [] ValidateMoniker(msg.Moniker) # "nil" -> ValidateMoniker(msg.Moniker)
      [] OTHER -> "nil"

(***************************************************************************)
(* The requests the callers construct.                                     *)
(***************************************************************************)
Addresses == {<<>>, <<1>>, <<2>>}

Nat500 == <<5,0,0>>
Nat499 == <<4,9,9>>
\* MaximumAssetInitSupply + 1 and MaximumAssetMaxSupply + 1
OverInitSupply == <<1,0,0,0,0,0,0,0,0,0,0,1>>
OverMaxSupply == <<1,0,0,0,0,0,0,0,0,0,0,0,1>>

\* lengths around the limits lo and hi, up to top
LengthsAround(lo, hi, top) == {lo - 1, lo, hi} \cup ((hi + 1)..top)

SymbolSamples ==
    {Rep("b", n) :
        n \in LengthsAround(MinimumAssetSymbolSize, MaximumAssetSymbolSize, MaxSymbolLen)}
    \cup {<<"1","b","c">>, <<"b","-","c">>, <<"x","I","r","i","s">>}
    \cup {Pad(<<"B","T","C">>, p) : p \in 1..MaxPad}
    \cup {Pad(Rep("c", MaximumAssetSymbolSize - 1), p) : p \in 1..MaxPad}

GatewaySamples == {<<"a","b">>, Pad(<<"G","a","t","e">>, MaxPad)}
NameSamples == {<<>>, Pad(<<"M","y"," ","C","o","i","n">>, MaxPad),
                Rep("n", MaximumAssetNameSize + 1)}
SymbolAtSourceSamples == {<<>>, Pad(<<"E","T","H">>, MaxPad), <<"x">>}
SymbolMinAliasSamples == {<<>>, <<"1","a","b","c">>, <<"a","b">>,
                          Pad(<<"S","a","t","s">>, MaxPad),
                          <<"a","-","b","c">>,
                          Rep("a", MaximumAssetSymbolMinAliasSize + 1)}

IssueRequests ==
    [Family : AssetFamilies,
     Source : AssetSources,
     Gateway : GatewaySamples,
     Symbol : SymbolSamples,
     SymbolAtSource : SymbolAtSourceSamples,
     Name : NameSamples,
     Decimal : {MaximumAssetDecimal, MaximumAssetDecimal + 1},
     SymbolMinAlias : SymbolMinAliasSamples,
     InitialSupply : {Nat500, OverInitSupply},
     MaxSupply : {<<0>>, Nat499, MaximumAssetMaxSupply, OverMaxSupply},
     Mintable : BOOLEAN,
     Owner : {<<>>, <<1>>},
     Fee : {<<>>}]

MonikerSamples ==
    {Rep("m", n) :
        n \in LengthsAround(MinimumGatewayMonikerSize, MaximumGatewayMonikerSize,
                            MaxMonikerLen)}
    \cup {Pad(<<"m","o","o","n">>, p) : p \in 1..MaxPad}
    \cup {<<"M","O","O","N">>, <<"m","o","o","n">>, <<"m","o","1","n">>,
          <<"x","I","R","I","S","x">>, <<"x","i","r","i","s","x">>}

DetailsSamples == {<<>>, Rep("d", MaximumGatewayDetailsSize),
                   Rep("d", MaximumGatewayDetailsSize + 1)}
WebsiteSamples == {<<>>, Rep("w", MaximumGatewayWebsiteSize),
                   Rep("w", MaximumGatewayWebsiteSize + 1)}
FeeSamples == [Denom : {NativeTokenMinDenom, NativeTokenName}, Amount : {-1, 0, 1}]

\* a *string: nil, or pointing at one of vals
Optional(vals) == {[set |-> FALSE, val |-> <<>>]} \cup [set : {TRUE}, val : vals]

CreateRequests ==
    [Owner : {<<>>, <<1>>}, Moniker : MonikerSamples, Identity : {<<"i","d">>},
     Details : DetailsSamples, Website : WebsiteSamples, Fee : FeeSamples]

EditRequests ==
    [Owner : {<<>>, <<1>>}, Moniker : MonikerSamples,
     Identity : Optional({<<"i","d">>}),
     Details : Optional(DetailsSamples \ {<<>>}),
     Website : Optional(WebsiteSamples \ {<<>>})]

TransferRequests == [Owner : Addresses, Moniker : MonikerSamples, To : Addresses]

\* the zero values of the message types
NoIssueMsg ==
    [Family |-> "UNDEFINED", Source |-> "UNDEFINED", Gateway |-> <<>>, Symbol |-> <<>>,
     SymbolAtSource |-> <<>>, Name |-> <<>>, Decimal |-> 0, SymbolMinAlias |-> <<>>,
     InitialSupply |-> <<0>>, MaxSupply |-> <<0>>, Mintable |-> FALSE, Owner |-> <<>>,
     Fee |-> <<>>]
NoCreateMsg ==
    [Owner |-> <<>>, Moniker |-> <<>>, Identity |-> <<>>, Details |-> <<>>,
     Website |-> <<>>, Fee |-> [Denom |-> <<>>, Amount |-> 0]]
NoEditMsg ==
    [Owner |-> <<>>, Moniker |-> <<>>, Identity |-> [set |-> FALSE, val |-> <<>>],
     Details |-> [set |-> FALSE, val |-> <<>>], Website |-> [set |-> FALSE, val |-> <<>>]]
NoTransferMsg == [Owner |-> <<>>, Moniker |-> <<>>, To |-> <<>>]
NoConvOut == [str |-> <<>>, err |-> "none"]
NoMinOut == [coin |-> [Denom |-> <<>>, Amount |-> <<0>>], err |-> "none"]

(***************************************************************************)
(* The validation calls.                                                   *)
(***************************************************************************)
\* line 81: the receiver is a value, so the caller's message is not written
CallerAfterIssue(callerMsg, recv) == callerMsg

ValidateIssueToken ==
    /\ pc = "ready" /\ kind = "issue"
    /\ LET r == MsgIssueToken_ValidateBasic(issueMsg)
       IN  /\ issueErr' = r.err
           /\ issueRecv' = r.recv
           /\ issueMsg' = CallerAfterIssue(issueMsg, r.recv)
    /\ pc' = "done"
    /\ UNCHANGED <<kind, createMsg, editMsg, transferMsg, gatewayErr,
                   srcCoinStr, destDenom, convOut, backOut, minOut>>

ValidateCreateGateway ==
    /\ pc = "ready" /\ kind = "create"
    /\ gatewayErr' = MsgCreateGateway_ValidateBasic(createMsg)
    /\ pc' = "done"
    /\ UNCHANGED <<kind, issueMsg, issueRecv, issueErr, createMsg, editMsg, transferMsg,
                   srcCoinStr, destDenom, convOut, backOut, minOut>>

ValidateEditGateway ==
    /\ pc = "ready" /\ kind = "edit"
    /\ gatewayErr' = MsgEditGateway_ValidateBasic(editMsg)
    /\ pc' = "done"
    /\ UNCHANGED <<kind, issueMsg, issueRecv, issueErr, createMsg, editMsg, transferMsg,
                   srcCoinStr, destDenom, convOut, backOut, minOut>>

ValidateTransferGatewayOwner ==
    /\ pc = "ready" /\ kind = "transfer"
    /\ gatewayErr' = MsgTransferGatewayOwner_ValidateBasic(transferMsg)
    /\ pc' = "done"
    /\ UNCHANGED <<kind, issueMsg, issueRecv, issueErr, createMsg, editMsg, transferMsg,
                   srcCoinStr, destDenom, convOut, backOut, minOut>>

NoConversion ==
    /\ srcCoinStr = <<>> /\ destDenom = <<>>
    /\ convOut = NoConvOut /\ backOut = NoConvOut /\ minOut = NoMinOut

NoGateway ==
    /\ createMsg = NoCreateMsg /\ editMsg = NoEditMsg /\ transferMsg = NoTransferMsg
    /\ gatewayErr = "none"

NoIssue == issueMsg = NoIssueMsg /\ issueRecv = NoIssueMsg /\ issueErr = "none"

InitIssue ==
    /\ pc = "ready" /\ kind = "issue"
    /\ issueMsg \in IssueRequests
    /\ issueRecv = NoIssueMsg /\ issueErr = "none"
    /\ NoGateway /\ NoConversion

InitGateway ==
    /\ pc = "ready"
    /\ \/ kind = "create" /\ createMsg \in CreateRequests
          /\ editMsg = NoEditMsg /\ transferMsg = NoTransferMsg
       \/ kind = "edit" /\ editMsg \in EditRequests
          /\ createMsg = NoCreateMsg /\ transferMsg = NoTransferMsg
       \/ kind = "transfer" /\ transferMsg \in TransferRequests
          /\ createMsg = NoCreateMsg /\ editMsg = NoEditMsg
    /\ gatewayErr = "none"
    /\ NoIssue /\ NoConversion

NextIssue == ValidateIssueToken

NextGateway ==
    \/ ValidateCreateGateway
    \/ ValidateEditGateway
    \/ ValidateTransferGatewayOwner

SpecIssue == InitIssue /\ [][NextIssue]_vars
SpecGateway == InitGateway /\ [][NextGateway]_vars

(***************************************************************************)
(* Package types: units, sdk.Int, sdk.Dec and sdk.ParseCoin.               *)
(***************************************************************************)
Iris == <<"i","r","i","s">>
Milli == <<"m","i","l","l","i">>
Micro == <<"m","i","c","r","o">>
Nano == <<"n","a","n","o">>
Pico == <<"p","i","c","o">>
Femto == <<"f","e","m","t","o">>
Atto == <<"a","t","t","o">>
MilliScale == 3
MicroScale == 6
NanoScale == 9
PicoScale == 12
FemtoScale == 15
AttoScale == 18

NewUnit(denom, decimal) == [Denom |-> denom, Decimal |-> decimal]
NoUnit == NewUnit(<<>>, 0)

\* fmt.Sprintf("%s-%s", a, b)
Dashed(a, b) == a \o <<"-">> \o b

Zeros(n) == [i \in 1..n |-> 0]

\* sdk.NewIntWithDecimal(1, decimal): 10^decimal
Unit_GetScaleFactor(u) == <<1>> \o Zeros(u.Decimal)

\* NewIrisCoinType: seven units, the last one the minimal unit
NewIrisCoinType ==
    LET units == << NewUnit(Iris, 0),
                    NewUnit(Dashed(Iris, Milli), MilliScale),
                    NewUnit(Dashed(Iris, Micro), MicroScale),
                    NewUnit(Dashed(Iris, Nano), NanoScale),
                    NewUnit(Dashed(Iris, Pico), PicoScale),
                    NewUnit(Dashed(Iris, Femto), FemtoScale),
                    NewUnit(Dashed(Iris, Atto), AttoScale) >>
    IN  [Name |-> Iris, Units |-> units, MinUnit |-> units[7]]

IrisCoinType == NewIrisCoinType

\* a digit sequence without its leading zeros
StripLeadingZeros(d) ==
    LET nz == {i \in 1..Len(d) : d[i] # 0}
    IN  IF nz = {} THEN <<0>> ELSE SubSeq(d, SetMin(nz), Len(d))

DigitValue(c) == (CHOOSE i \in 1..Len(DigitChars) : DigitChars[i] = c) - 1
DigitsOf(s) == [i \in 1..Len(s) |-> DigitValue(s[i])]
CharsOf(d) == [i \in 1..Len(d) |-> DigitChars[d[i] + 1]]

\* the characters a denomination may hold after its first letter
IsDenomChar(c) == IsLetterChar(c) \/ IsDigitChar(c) \/ c = "-"
IsDenom(s) ==
    /\ Len(s) > 0
    /\ IsLetterChar(s[1])
    /\ \A i \in 1..Len(s) : IsDenomChar(s[i])

\* sdk.ParseCoin: <digits><blanks><denom> after trimming; the amount of an
\* sdk.Coin is an sdk.Int, so an amount with a fraction does not parse.
ParseCoin(coinStr) ==
    LET t      == TrimSpace(coinStr)
        nondig == {i \in 1..Len(t) : ~IsDigitChar(t[i])}
        n      == IF nondig = {} THEN Len(t) ELSE SetMin(nondig) - 1
        rest   == TrimSpace(SubSeq(t, n + 1, Len(t)))
    IN  IF n >= 1 /\ IsDenom(rest)
        THEN [ok |-> TRUE,
              coin |-> [Denom |-> rest,
                        Amount |-> StripLeadingZeros(DigitsOf(SubSeq(t, 1, n)))]]
        ELSE [ok |-> FALSE, coin |-> [Denom |-> <<>>, Amount |-> <<0>>]]

\* sdk.Dec as an exact decimal: digits / 10^exp
NewDecFromInt(i) == [digits |-> i, exp |-> 0]

\* whether the Dec d is 10^k for some k >= 0
IsPowerOfTen(d) ==
    /\ d.exp = 0
    /\ d.digits[1] = 1
    /\ \A i \in 2..Len(d.digits) : d.digits[i] = 0

\* sdk.Dec.Mul, for a multiplier that is a power of ten (a scale factor)
Dec_Mul(d, scale) ==
    IF IsPowerOfTen(scale)
    THEN [digits |-> StripLeadingZeros(d.digits \o Zeros(Len(scale.digits) - 1)),
          exp |-> d.exp]
    ELSE [digits |-> <<0>>, exp |-> 0]

\* sdk.Dec.Quo, for a divisor that is a power of ten (a scale factor)
Dec_Quo(d, scale) ==
    IF IsPowerOfTen(scale)
    THEN [digits |-> d.digits, exp |-> d.exp + Len(scale.digits) - 1]
    ELSE [digits |-> <<0>>, exp |-> 0]

\* sdk.Dec.String: the integer digits, then "." and the fraction when there is one
Dec_String(d) ==
    LET n     == Len(d.digits)
        nzpos == {i \in 1..n : d.digits[i] # 0}
        \* trailing zeros of the fraction are not written
        drop  == IF nzpos = {} THEN d.exp
                 ELSE IF n - SetMax(nzpos) < d.exp THEN n - SetMax(nzpos) ELSE d.exp
        e     == d.exp - drop
        dg    == SubSeq(d.digits, 1, n - drop)
        full  == IF Len(dg) <= e THEN Zeros(e + 1 - Len(dg)) \o dg ELSE dg
        m     == Len(full)
    IN  IF nzpos = {} THEN <<"0">>
        ELSE IF e = 0 THEN CharsOf(full)
        ELSE CharsOf(SubSeq(full, 1, m - e)) \o <<".">> \o CharsOf(SubSeq(full, m - e + 1, m))

(***************************************************************************)
(* CoinType, part_000 85-128.                                              *)
(***************************************************************************)
\* CoinType.GetUnit, lines 121-128: the first unit whose denom matches, case ignored
GetUnit(ct, denom) ==
    LET hits == {i \in 1..Len(ct.Units) : ToLower(denom) = ToLower(ct.Units[i].Denom)}
    IN  IF hits = {} THEN [found |-> FALSE, unit |-> NoUnit]
        ELSE [found |-> TRUE, unit |-> ct.Units[SetMin(hits)]]

\* the scaling with the two scale factors exchanged
ScaleAmountSwapped(amount, srcUnit, destUnit) ==
    LET ratScale == NewDecFromInt(Unit_GetScaleFactor(srcUnit))
        srcScale == NewDecFromInt(Unit_GetScaleFactor(destUnit))
    IN  Dec_String(Dec_Quo(Dec_Mul(NewDecFromInt(amount), ratScale), srcScale))

\* lines 103-108: dest amount = src amount * 10^(dest scale) / 10^(src scale)
ScaleAmount(amount, srcUnit, destUnit) ==
    LET ratScale == NewDecFromInt(Unit_GetScaleFactor(destUnit))
        srcScale == NewDecFromInt(Unit_GetScaleFactor(srcUnit))
    IN  Dec_String(Dec_Quo(Dec_Mul(NewDecFromInt(amount), ratScale), srcScale))

\* CoinType.Convert, lines 85-111
Convert(ct, coinStr, denom) ==
    LET parsed   == ParseCoin(coinStr)
        destUnit == GetUnit(ct, denom)
        srcUnit  == GetUnit(ct, parsed.coin.Denom)
    IN  CASE ~parsed.ok -> [str |-> <<>>, err |-> "invalid coin expression"]
          [] ~destUnit.found -> [str |-> <<>>, err |-> "destination unit not defined"]
          [] ~srcUnit.found -> [str |-> <<>>, err |-> "source unit not defined"]
          [] srcUnit.unit.Denom = denom -> [str |-> coinStr, err |-> "nil"]
          [] OTHER ->
                [str |-> ScaleAmount(parsed.coin.Amount, srcUnit.unit, destUnit.unit)
                            \o destUnit.unit.Denom,
                 err |-> "nil"]

\* CoinType.ConvertToMinDenomCoin, lines 113-119
ConvertToMinDenomCoin(ct, coinStr) ==
    LET c == Convert(ct, coinStr, ct.MinUnit.Denom)
    IN  IF c.err = "nil"
        THEN [coin |-> NoMinOut.coin, err |-> "convert error"]
        ELSE LET p == ParseCoin(c.str)
             IN  [coin |-> p.coin,
                  err |-> IF p.ok THEN "nil" ELSE "invalid coin expression"]

(***************************************************************************)
(* The conversion calls.                                                   *)
(***************************************************************************)
UnitDenoms == {IrisCoinType.Units[i].Denom : i \in 1..Len(IrisCoinType.Units)}

UpperIris == <<"I","R","I","S">>
MixedIrisAtto == <<"I","r","i","s","-","A","t","t","o">>
UnknownDenom == <<"b","t","c">>

AmountSamples ==
    {d \o Rep("0", z) : d \in {<<"1">>, <<"1","5">>, <<"2","5","0","0">>},
                        z \in 0..MaxAmountZeros}
    \cup {<<"0">>, <<"1">> \o Rep("0", AttoScale), <<"1",".","5">>, <<>>}

SrcDenomSamples == UnitDenoms \cup {UpperIris, MixedIrisAtto, UnknownDenom}
DestDenomSamples == UnitDenoms \cup {UpperIris, MixedIrisAtto, UnknownDenom, <<>>}

CoinStrSamples ==
    {Rep(" ", p) \o a \o Rep(" ", q) \o d :
        p \in 0..MaxPad, q \in 0..MaxPad, a \in AmountSamples, d \in SrcDenomSamples}

InitConvert ==
    /\ pc = "ready" /\ kind = "convert"
    /\ srcCoinStr \in CoinStrSamples
    /\ destDenom \in DestDenomSamples
    /\ convOut = NoConvOut /\ backOut = NoConvOut /\ minOut = NoMinOut
    /\ NoIssue /\ NoGateway

CallConvert ==
    /\ pc = "ready" /\ kind = "convert"
    /\ convOut' = Convert(IrisCoinType, srcCoinStr, destDenom)
    /\ pc' = "done"
    /\ UNCHANGED <<kind, issueMsg, issueRecv, issueErr, createMsg, editMsg, transferMsg,
                   gatewayErr, srcCoinStr, destDenom, backOut, minOut>>

\* the caller converts a result back to the denomination the amount came in
CallConvertBack ==
    /\ pc = "done" /\ kind = "convert"
    /\ convOut.err = "nil"
    /\ backOut' = Convert(IrisCoinType, convOut.str, ParseCoin(srcCoinStr).coin.Denom)
    /\ pc' = "back"
    /\ UNCHANGED <<kind, issueMsg, issueRecv, issueErr, createMsg, editMsg, transferMsg,
                   gatewayErr, srcCoinStr, destDenom, convOut, minOut>>

CallConvertToMinDenomCoin ==
    /\ pc = "ready" /\ kind = "convert"
    /\ minOut' = ConvertToMinDenomCoin(IrisCoinType, srcCoinStr)
    /\ pc' = "min"
    /\ UNCHANGED <<kind, issueMsg, issueRecv, issueErr, createMsg, editMsg, transferMsg,
                   gatewayErr, srcCoinStr, destDenom, convOut, backOut>>

NextConvert ==
    \/ CallConvert
    \/ CallConvertBack
    \/ CallConvertToMinDenomCoin

SpecConvert == InitConvert /\ [][NextConvert]_vars

Init == InitIssue \/ InitGateway \/ InitConvert
Next == NextIssue \/ NextGateway \/ NextConvert
Spec == Init /\ [][Next]_vars

(***************************************************************************)
(* Properties.                                                             *)
(***************************************************************************)
Str1Iris == <<"1">> \o Iris
IrisAtto == Dashed(Iris, Atto)
Str1E18IrisAtto == <<"1">> \o Rep("0", AttoScale) \o IrisAtto

SrcParsed == ParseCoin(srcCoinStr)
SrcUnit == GetUnit(IrisCoinType, SrcParsed.coin.Denom)
DestUnit == GetUnit(IrisCoinType, destDenom)
\* the amount parses and both denominations are registered units
Convertible == SrcParsed.ok /\ SrcUnit.found /\ DestUnit.found

\* C1: whenever the amount string parses and its denomination is a registered
\* unit, ConvertToMinDenomCoin returns no error and the coin that
\* Convert(amount, MinUnit.Denom) spells; it returns an error only when that
\* Convert fails.
C1_ToMinDenomSucceeds ==
    pc = "min" =>
        LET c == Convert(IrisCoinType, srcCoinStr, IrisCoinType.MinUnit.Denom)
        IN  /\ (SrcParsed.ok /\ SrcUnit.found) =>
                    /\ minOut.err = "nil"
                    /\ minOut.coin = ParseCoin(c.str).coin
                    /\ minOut.coin.Denom = IrisCoinType.MinUnit.Denom
            /\ minOut.err # "nil" => c.err # "nil"

\* C2: converting an amount to another unit of the coin type and the result
\* back to the first unit succeeds and gives the amount again, in the same unit.
C2_RoundTrip ==
    pc = "back" =>
        /\ backOut.err = "nil"
        /\ ParseCoin(backOut.str).ok
        /\ ParseCoin(backOut.str).coin.Amount = SrcParsed.coin.Amount
        /\ GetUnit(IrisCoinType, ParseCoin(backOut.str).coin.Denom) = SrcUnit

\* the last n characters of s
Suffix(s, n) == SubSeq(s, Len(s) - n + 1, Len(s))

\* <decimal-digits>[.<decimal-digits>]
IsDecimalText(s) ==
    LET dots == {i \in 1..Len(s) : s[i] = "."}
    IN  /\ Len(s) > 0
        /\ \A i \in 1..Len(s) : IsDigitChar(s[i]) \/ s[i] = "."
        /\ Cardinality(dots) <= 1
        /\ \A i \in dots : 1 < i /\ i < Len(s)

\* the digits of a decimal text and how many of them follow the point
DecimalDigits(s) == DigitsOf(SelectSeq(s, IsDigitChar))
DecimalPlaces(s) ==
    LET dots == {i \in 1..Len(s) : s[i] = "."}
    IN  IF dots = {} THEN 0 ELSE Len(s) - SetMin(dots)

\* text = amount * 10^destDecimal / 10^srcDecimal, by cross-multiplication
IsScaled(text, amount, srcDecimal, destDecimal) ==
    StripLeadingZeros(amount \o Zeros(destDecimal + DecimalPlaces(text)))
        = StripLeadingZeros(DecimalDigits(text) \o Zeros(srcDecimal))

C4_CallerHoldsNormalized ==
    (pc = "done" /\ kind = "issue" /\ issueErr = "nil") => issueMsg = issueRecv

NormalizeMoniker(m) == [m EXCEPT !.Moniker = ToLower(TrimSpace(@))]

\* C5: a gateway request gets the verdict of the same request with its moniker
\* trimmed and lower-cased.
C5_MonikerNormalizedFirst ==
    pc = "done" =>
        /\ kind = "create" =>
              gatewayErr = MsgCreateGateway_ValidateBasic(NormalizeMoniker(createMsg))
        /\ kind = "edit" =>
              gatewayErr = MsgEditGateway_ValidateBasic(NormalizeMoniker(editMsg))
        /\ kind = "transfer" =>
              gatewayErr = MsgTransferGatewayOwner_ValidateBasic(NormalizeMoniker(transferMsg))

\* a symbol of length 2, or of length 9 or more
BadSymbolLength(sym) ==
    Len(sym) = MinimumAssetSymbolSize - 1 \/ Len(sym) >= MaximumAssetSymbolSize + 1

\* C6 as stated: a symbol of length 2 or 9+ is rejected with
\* InvalidAssetSymbol whatever the other fields hold.
C6_Original ==
    (pc = "done" /\ kind = "issue" /\ BadSymbolLength(issueMsg.Symbol)) =>
        issueErr = "ErrInvalidAssetSymbol"

\* checks 1 to 3 of issue-token validation pass: source (with its owner or
\* gateway rule), family and name
PassesSourceFamilyName(m) ==
    /\ \/ m.Source = "NATIVE" /\ m.Owner # <<>>
       \/ /\ m.Source = "GATEWAY"
          /\ Len(TrimSpace(m.Gateway)) >= MinimumGatewayMonikerSize
          /\ Len(TrimSpace(m.Gateway)) <= MaximumGatewayMonikerSize
    /\ m.Family = "FUNGIBLE"
    /\ Len(TrimSpace(m.Name)) >= 1
    /\ Len(TrimSpace(m.Name)) <= MaximumAssetNameSize

\* C6: a request that passes the source, family and name checks and whose
\* trimmed symbol has length 2 or 9+ is rejected with InvalidAssetSymbol,
\* whatever symbolAtSource, symbolMinAlias, the supplies and decimal hold.
C6_BadSymbolLengthRejected ==
    (/\ pc = "done" /\ kind = "issue"
     /\ PassesSourceFamilyName(issueMsg)
     /\ BadSymbolLength(TrimSpace(issueMsg.Symbol))) =>
        issueErr = "ErrInvalidAssetSymbol"

C6_Witness ==
    /\ pc = "done" /\ kind = "issue"
    /\ issueMsg.Source = "GATEWAY"
    /\ PassesSourceFamilyName(issueMsg)
    /\ Len(TrimSpace(issueMsg.Symbol)) = MaximumAssetSymbolSize + 1
    /\ issueMsg.Decimal > MaximumAssetDecimal
    /\ issueErr = "ErrInvalidAssetSymbol"

AllAbsent(m) == ~m.Identity.set /\ ~m.Details.set /\ ~m.Website.set

\* C7 as stated: an EditGateway request with identity, details and website all
\* absent is rejected with NoUpdatesProvided whatever its owner and moniker.
C7_Original ==
    (pc = "done" /\ kind = "edit" /\ AllAbsent(editMsg)) =>
        gatewayErr = "ErrNoUpdatesProvided"

\* the moniker has 3 to 8 letters and does not hold the native token name
MonikerIsValid(moniker) ==
    /\ Len(moniker) >= MinimumGatewayMonikerSize
    /\ Len(moniker) <= MaximumGatewayMonikerSize
    /\ \A i \in 1..Len(moniker) : IsLetterChar(moniker[i])
    /\ ~Contains(ToLower(moniker), NativeTokenName)

\* C7: an EditGateway request with a non-empty owner and a valid moniker in
\* which identity, details and website are all absent is rejected with
\* NoUpdatesProvided.
C7_NoUpdatesRejected ==
    (/\ pc = "done" /\ kind = "edit"
     /\ AllAbsent(editMsg)
     /\ editMsg.Owner # <<>>
     /\ MonikerIsValid(editMsg.Moniker)) =>
        gatewayErr = "ErrNoUpdatesProvided"

C7_Witness ==
    /\ pc = "done" /\ kind = "edit"
    /\ AllAbsent(editMsg)
    /\ editMsg.Owner # <<>>
    /\ MonikerIsValid(editMsg.Moniker)
    /\ gatewayErr = "ErrNoUpdatesProvided"

\* C8 as stated: a TransferGatewayOwner request whose to equals its owner is
\* rejected with InvalidToAddress for every address, the empty one included.
C8_Original ==
    (pc = "done" /\ kind = "transfer" /\ transferMsg.To = transferMsg.Owner) =>
        gatewayErr = "ErrInvalidToAddress"

\* C8: a TransferGatewayOwner request whose to equals its owner, the address
\* being non-empty, is rejected with InvalidToAddress whether or not the
\* moniker is valid.
C8_SelfTransferRejected ==
    (/\ pc = "done" /\ kind = "transfer"
     /\ transferMsg.To = transferMsg.Owner
     /\ transferMsg.Owner # <<>>) =>
        gatewayErr = "ErrInvalidToAddress"

C8_Witness ==
    /\ pc = "done" /\ kind = "transfer"
    /\ transferMsg.To = transferMsg.Owner
    /\ transferMsg.Owner # <<>>
    /\ ~MonikerIsValid(transferMsg.Moniker)
    /\ gatewayErr = "ErrInvalidToAddress"

\* C9: a MaxSupply of 0 becomes MaximumAssetMaxSupply when Mintable and
\* InitialSupply otherwise, before the supply range check: such a request is
\* never rejected with InvalidMaxSupply when InitialSupply is within its limit,
\* and a non-zero MaxSupply is range-checked as supplied.
C9_MaxSupplyDefault ==
    (pc = "done" /\ kind = "issue") =>
        /\ issueRecv.MaxSupply =
              IF issueMsg.MaxSupply # <<0>> THEN issueMsg.MaxSupply
              ELSE IF issueMsg.Mintable THEN <<1,0,0,0,0,0,0,0,0,0,0,0,0>>
              ELSE issueMsg.InitialSupply
        /\ (/\ issueMsg.MaxSupply = <<0>>
            /\ ~NatGreater(issueMsg.InitialSupply, MaximumAssetInitSupply)) =>
              issueErr # "ErrInvalidAssetMaxSupply"
        /\ (/\ issueMsg.MaxSupply # <<0>>
            /\ issueErr \in {"ErrInvalidAssetMaxSupply", "ErrInvalidAssetDecimal", "nil"}) =>
              (issueErr = "ErrInvalidAssetMaxSupply"
                 <=> \/ NatLess(issueMsg.MaxSupply, issueMsg.InitialSupply)
                     \/ NatGreater(issueMsg.MaxSupply, MaximumAssetMaxSupply))

C9_Witness ==
    /\ pc = "done" /\ kind = "issue"
    /\ issueMsg.MaxSupply = <<0>> /\ issueMsg.Mintable
    /\ issueRecv.MaxSupply = MaximumAssetMaxSupply
    /\ issueErr = "nil"

\* C10: when the source and the destination denomination resolve to the same
\* unit, Convert returns the input amount string unchanged.
C10_IdentityShortCircuit ==
    (pc = "done" /\ Convertible /\ SrcUnit.unit = DestUnit.unit) =>
        convOut = [str |-> srcCoinStr, err |-> "nil"]

\* the errors of checks 1 to 5 of issue-token validation
ErrorsOfChecks1To5 ==
    {"ErrNilAssetOwner", "ErrInvalidAssetSource", "ErrInvalidMoniker",
     "ErrInvalidAssetFamily", "ErrInvalidAssetName", "ErrInvalidAssetSymbol",
     "ErrInvalidAssetSymbolAtSource"}

\* the alias as validation reads it: trimmed and lower-cased
AliasRead(m) == ToLower(TrimSpace(m.SymbolMinAlias))

\* non-empty, and of a length outside [3, 10] or with a character that is
\* neither a letter nor a digit
AliasBad(alias) ==
    /\ alias # <<>>
    /\ \/ Len(alias) < MinimumAssetSymbolMinAliasSize
       \/ Len(alias) > MaximumAssetSymbolMinAliasSize
       \/ \E i \in 1..Len(alias) : ~(IsLetterChar(alias[i]) \/ IsDigitChar(alias[i]))

\* C11: a request that passes checks 1 to 5 is rejected with
\* InvalidAssetSymbolMinAlias exactly when its alias is non-empty and has a
\* length outside [3, 10] or is not alphanumeric; an alias that begins with a
\* digit ("1abc") is not rejected for it, and an empty alias never is.
C11_AliasRejectedExactlyWhenBad ==
    (pc = "done" /\ kind = "issue" /\ issueErr \notin ErrorsOfChecks1To5) =>
        /\ issueErr = "ErrInvalidAssetSymbolMinAlias" <=> AliasBad(AliasRead(issueMsg))
        /\ issueMsg.SymbolMinAlias \in {<<>>, <<"1","a","b","c">>} =>
              issueErr # "ErrInvalidAssetSymbolMinAlias"

C11_Witness ==
    /\ pc = "done" /\ kind = "issue"
    /\ issueMsg.SymbolMinAlias = <<"1","a","b","c">>
    /\ issueErr = "nil"

\* C12: a CreateGateway request with a non-empty owner, a valid moniker,
\* details of at most 280 characters and a website of more than 128 is
\* rejected with InvalidWebsite, the kind EditGateway gives an over-long website.
C12_CreateRejectsWebsite ==
    (/\ pc = "done" /\ kind = "create"
     /\ createMsg.Owner # <<>>
     /\ MonikerIsValid(createMsg.Moniker)
     /\ Len(createMsg.Details) <= MaximumGatewayDetailsSize
     /\ Len(createMsg.Website) > MaximumGatewayWebsiteSize) =>
        gatewayErr = "ErrInvalidWebsite"

=============================================================================
